---- MODULE Spec2Model ----
(***************************************************************************)
(* Model of slurm_fastq_submit.py: discovery of FASTQ files in a           *)
(* directory, derivation of a sample name per file, pairing of the mates   *)
(* of each sample and emission of one job file per sample from a template. *)
(* Text (file names, paths, templates) is a sequence of one-character      *)
(* strings, so that the regular expressions, Path.stem, the path ordering  *)
(* and str.format are computed character by character.                     *)
(***************************************************************************)
EXTENDS Integers, Sequences, FiniteSets, TLC

\* ------------------------------------------------------------------ text
Digits == <<"0","1","2","3","4","5","6","7","8","9">>
Upper == <<"A","B","C","D","E","F","G","H","I","J","K","L","M","N","O","P","Q","R","S","T","U","V","W","X","Y","Z">>
Lower == <<"a","b","c","d","e","f","g","h","i","j","k","l","m","n","o","p","q","r","s","t","u","v","w","x","y","z">>

Range(s) == {s[i] : i \in 1..Len(s)}

IndexOf(s, c) == CHOOSE i \in 1..Len(s) : s[i] = c

IsDigit(c) == c \in Range(Digits)

\* the code point of a character: Python compares str by code point
Ord(c) ==
  IF c \in Range(Digits) THEN 47 + IndexOf(Digits, c)
  ELSE IF c \in Range(Upper) THEN 64 + IndexOf(Upper, c)
  ELSE IF c \in Range(Lower) THEN 96 + IndexOf(Lower, c)
  ELSE CASE c = " " -> 32 [] c = "-" -> 45 [] c = "." -> 46 [] c = "/" -> 47
         [] c = "=" -> 61 [] c = ">" -> 62 [] c = "_" -> 95
         [] c = "{" -> 123 [] c = "}" -> 125

Slice(s, a, b) == IF a > b THEN <<>> ELSE SubSeq(s, a, b)

\* the text lit occurs in s at position j
LitAt(s, j, lit) ==
  /\ j >= 1
  /\ j + Len(lit) - 1 <= Len(s)
  /\ \A t \in 1..Len(lit) : s[j + t - 1] = lit[t]

EndsWith(s, suf) == Len(suf) <= Len(s) /\ LitAt(s, Len(s) - Len(suf) + 1, suf)

\* number of consecutive digits of s from position j on
DigitsRun(s, j) ==
  LET stops == {k \in j..Len(s) : ~IsDigit(s[k])}
  IN IF j > Len(s) THEN 0
     ELSE IF stops = {} THEN Len(s) - j + 1
     ELSE (CHOOSE k \in stops : \A m \in stops : k <= m) - j

Max(S) == CHOOSE x \in S : \A y \in S : y <= x
Min(S) == CHOOSE x \in S : \A y \in S : x <= y

\* str < str in Python: first differing code point, else the shorter one
StrLess(a, b) ==
  LET n == IF Len(a) < Len(b) THEN Len(a) ELSE Len(b)
      diff == {i \in 1..n : a[i] # b[i]}
  IN IF diff = {} THEN Len(a) < Len(b)
     ELSE Ord(a[Min(diff)]) < Ord(b[Min(diff)])

\* ------------------------------------------------------------------ paths
Sep == "/"

IsAbs(p) == Len(p) >= 1 /\ p[1] = Sep

\* Path.__truediv__ with a relative right operand
Join(dir, name) == dir \o <<Sep>> \o name

\* the working directory of the process
Cwd == <<"/","w">>

\* Path.absolute()
Absolute(p) == IF IsAbs(p) THEN p ELSE Join(Cwd, p)

\* Path.name: the final component
Name(p) ==
  LET seps == {i \in 1..Len(p) : p[i] = Sep}
  IN IF seps = {} THEN p ELSE Slice(p, Max(seps) + 1, Len(p))

\* Path.parts: the root, then the components
RECURSIVE SplitSep(_)
SplitSep(p) ==
  LET seps == {i \in 1..Len(p) : p[i] = Sep}
  IN IF seps = {} THEN <<p>>
     ELSE <<Slice(p, 1, Min(seps) - 1)>> \o SplitSep(Slice(p, Min(seps) + 1, Len(p)))

Parts(p) ==
  IF IsAbs(p) THEN <<(<<Sep>>)>> \o SelectSeq(SplitSep(Tail(p)), LAMBDA x : x # <<>>)
  ELSE SelectSeq(SplitSep(p), LAMBDA x : x # <<>>)

\* Path.stem: the name without its last suffix; a leading or a trailing
\* dot starts no suffix
Stem(p) ==
  LET n == Name(p)
      dots == {i \in 1..Len(n) : n[i] = "."}
  IN IF dots = {} THEN n
     ELSE IF 1 < Max(dots) /\ Max(dots) < Len(n) THEN Slice(n, 1, Max(dots) - 1)
     ELSE n

\* PurePath.__lt__: the tuples of parts are compared, element by element
PathLess(p, q) ==
  LET a == Parts(p)
      b == Parts(q)
      n == IF Len(a) < Len(b) THEN Len(a) ELSE Len(b)
      diff == {i \in 1..n : a[i] # b[i]}
  IN IF diff = {} THEN Len(a) < Len(b)
     ELSE StrLess(a[Min(diff)], b[Min(diff)])

\* sorted(paths): insertion into an ascending list
RECURSIVE Insert(_, _)
Insert(x, s) ==
  IF s = <<>> THEN <<x>>
  ELSE IF PathLess(x, Head(s)) THEN <<x>> \o s
  ELSE <<Head(s)>> \o Insert(x, Tail(s))

RECURSIVE Sorted(_)
Sorted(s) == IF s = <<>> THEN <<>> ELSE Insert(Head(s), Sorted(Tail(s)))

\* ------------------------------------------------------------------ regular expressions
\* number of consecutive characters of s from position j on that '.' matches
\* (every character but a newline)
AnyRun(s, j) ==
  LET stops == {k \in j..Len(s) : s[k] = "\n"}
  IN IF j > Len(s) THEN 0
     ELSE IF stops = {} THEN Len(s) - j + 1
     ELSE Min(stops) - j

\* a pattern that knows .fastq only
FastqRestMatches_fastqOnly(s, j) ==
  /\ LitAt(s, j, <<".","f","a","s","t","q">>)
  /\ \/ j + 5 = Len(s)
     \/ \E b \in {<<".","g","z">>, <<".","b","z","2">>} : LitAt(s, j + 6, b) /\ j + 5 + Len(b) = Len(s)

\* fastq_regex, from its '\.' on: \.(fastq|fq)(\.gz|\.bz2)?$ matches s from j to the end
FastqRestMatches(s, j) ==
  \E a \in {<<".","f","a","s","t","q">>, <<".","f","q">>} :
     /\ LitAt(s, j, a)
     /\ \/ j + Len(a) - 1 = Len(s)
        \/ \E b \in {<<".","g","z">>, <<".","b","z","2">>} :
              LitAt(s, j + Len(a), b) /\ j + Len(a) + Len(b) - 1 = Len(s)

\* fastq_regex.sub(r'\1', s): the greedy (.+) takes the longest prefix that
\* leaves a match of the rest; s is returned unchanged when nothing matches
FastqRegexSub(s) ==
  LET ks == {k \in 1..AnyRun(s, 1) : FastqRestMatches(s, k + 1)}
  IN IF ks = {} THEN s ELSE Slice(s, 1, Max(ks))

\* illumina_regex, from '_L' on: the last position of the match of
\* _L\d*1_R\d+_001 that starts at j, 0 when there is none
IlluminaTailEnd(s, j) ==
  IF ~LitAt(s, j, <<"_","L">>) THEN 0
  ELSE LET ns(m) == {n \in 1..DigitsRun(s, j + m + 5) : LitAt(s, j + m + 5 + n, <<"_","0","0","1">>)}
           ms == {m \in 0..DigitsRun(s, j + 2) : LitAt(s, j + 2 + m, <<"1","_","R">>) /\ ns(m) # {}}
       IN IF ms = {} THEN 0 ELSE j + Max(ms) + Max(ns(Max(ms))) + 8

\* the pattern with a lazy .+? : the shortest run is taken
IlluminaMatchEnd_lazy(s, i) ==
  IF ~LitAt(s, i, <<"_","S">>) THEN 0
  ELSE LET ks == {k \in 1..AnyRun(s, i + 2) : IlluminaTailEnd(s, i + 2 + k) # 0}
       IN IF ks = {} THEN 0 ELSE IlluminaTailEnd(s, i + 2 + Min(ks))

\* illumina_regex matched at position i: _S, then the greedy .+ (any
\* characters, the longest run that leaves a match of the rest), then the
\* rest; the last position of the match, 0 when there is none
IlluminaMatchEnd(s, i) ==
  IF ~LitAt(s, i, <<"_","S">>) THEN 0
  ELSE LET ks == {k \in 1..AnyRun(s, i + 2) : IlluminaTailEnd(s, i + 2 + k) # 0}
       IN IF ks = {} THEN 0 ELSE IlluminaTailEnd(s, i + 2 + Max(ks))

\* re.sub(illumina_regex, '', s) from position pos on: the leftmost match is
\* deleted and the search goes on after it
RECURSIVE IlluminaSubFrom(_, _)
IlluminaSubFrom(s, pos) ==
  LET starts == {i \in pos..Len(s) : IlluminaMatchEnd(s, i) # 0}
  IN IF starts = {} THEN Slice(s, pos, Len(s))
     ELSE Slice(s, pos, Min(starts) - 1) \o IlluminaSubFrom(s, IlluminaMatchEnd(s, Min(starts)) + 1)

IlluminaRegexSub(s) == IlluminaSubFrom(s, 1)

\* genome_name of one path
GenomeName(fastq) == IlluminaRegexSub(FastqRegexSub(Stem(fastq)))

\* ------------------------------------------------------------------ discovery
\* itertools.product(['.fq', '.fastq'], ['', '.gz', '.bz2']) as glob patterns
Extensions ==
  << <<"*",".","f","q">>, <<"*",".","f","q",".","g","z">>, <<"*",".","f","q",".","b","z","2">>, <<"*",".","f","a","s","t","q">>, <<"*",".","f","a","s","t","q",".","g","z">>, <<"*",".","f","a","s","t","q",".","b","z","2">> >>

\* itertools.chain.from_iterable
RECURSIVE Chain(_)
Chain(ss) == IF ss = <<>> THEN <<>> ELSE Head(ss) \o Chain(Tail(ss))

\* fnmatch of a name against a pattern '*<text>'
FnMatch(name, pat) == pat[1] = "*" /\ EndsWith(name, Tail(pat))

\* a glob that descends into the subdirectories, as rglob does
Glob_rglob(directory, exists, entries, pat) ==
  IF ~exists THEN <<>>
  ELSE LET walk(e) == <<e.name>> \o [c \in 1..Len(e.children) |-> Join(e.name, e.children[c])]
           all == Chain([i \in 1..Len(entries) |-> walk(entries[i])])
           hits == SelectSeq(all, LAMBDA n : FnMatch(n, pat))
       IN [i \in 1..Len(hits) |-> Join(directory, hits[i])]

\* directory.glob(pat): the entries directly inside the directory whose
\* name matches, in scan order; nothing when the directory does not exist
Glob(directory, exists, entries, pat) ==
  IF ~exists THEN <<>>
  ELSE LET hits == SelectSeq(entries, LAMBDA e : FnMatch(e.name, pat))
       IN [i \in 1..Len(hits) |-> Join(directory, hits[i].name)]

get_fastq_paths(directory, exists, entries) ==
  LET globs == [e \in 1..Len(Extensions) |-> Glob(directory, exists, entries, Extensions[e])]
      chained == Chain(globs)
  IN [i \in 1..Len(chained) |-> Absolute(chained[i])]

\* ------------------------------------------------------------------ grouping
\* genome_fastqs[name].append(fastq) on an insertion-ordered dict, kept as a
\* sequence of [name, paths]
Append2Group(groups, name, fastq) ==
  IF \E i \in 1..Len(groups) : groups[i].name = name
  THEN [i \in 1..Len(groups) |->
          IF groups[i].name = name
          THEN [groups[i] EXCEPT !.paths = Append(@, fastq)]
          ELSE groups[i]]
  ELSE Append(groups, [name |-> name, paths |-> <<fastq>>])

RECURSIVE GenomeFastqs(_)
GenomeFastqs(fastqs) ==
  IF fastqs = <<>> THEN <<>>
  ELSE LET last == fastqs[Len(fastqs)]
       IN Append2Group(GenomeFastqs(Slice(fastqs, 1, Len(fastqs) - 1)), GenomeName(last), last)

\* fwd, rev, *_ = sorted(paths) needs two values at least
CanUnpack(paths) == Len(paths) >= 2

\* the mates taken in the order of discovery, without the sort
FwdRev_unsorted(g) == [name |-> g.name, fwd |-> g.paths[1], rev |-> g.paths[2]]

FwdRev(g) ==
  LET s == Sorted(g.paths)
  IN [name |-> g.name, fwd |-> s[1], rev |-> s[2]]

\* ------------------------------------------------------------------ template
NoneStr == <<"N","o","n","e">>

\* str() of an optional Path argument
StrOpt(o) == IF o.given THEN o.path ELSE NoneStr

FieldNames == {<<"g","e","n","o","m","e">>, <<"o","u","t","p","u","t">>, <<"r","e","f","e","r","e","n","c","e">>, <<"f","w","d">>, <<"r","e","v">>}

\* the two mates passed the wrong way round
Kwargs_swapped(sample, out, ref) ==
  [k \in FieldNames |->
     IF k = <<"g","e","n","o","m","e">> THEN sample.name
     ELSE IF k = <<"o","u","t","p","u","t">> THEN StrOpt(out)
     ELSE IF k = <<"r","e","f","e","r","e","n","c","e">> THEN StrOpt(ref)
     ELSE IF k = <<"f","w","d">> THEN sample.rev
     ELSE sample.fwd]

\* a call that also passes sample=sample_name
Kwargs_extra(sample, out, ref) ==
  [k \in FieldNames \cup { <<"s","a","m","p","l","e">> } |->
     IF k \in { <<"g","e","n","o","m","e">>, <<"s","a","m","p","l","e">> } THEN sample.name
     ELSE IF k = <<"o","u","t","p","u","t">> THEN StrOpt(out)
     ELSE IF k = <<"r","e","f","e","r","e","n","c","e">> THEN StrOpt(ref)
     ELSE IF k = <<"f","w","d">> THEN sample.fwd
     ELSE sample.rev]

\* the keyword arguments of job_tmpl.format(...)
Kwargs(sample, out, ref) ==
  [k \in FieldNames |->
     IF k = <<"g","e","n","o","m","e">> THEN sample.name
     ELSE IF k = <<"o","u","t","p","u","t">> THEN StrOpt(out)
     ELSE IF k = <<"r","e","f","e","r","e","n","c","e">> THEN StrOpt(ref)
     ELSE IF k = <<"f","w","d">> THEN sample.fwd
     ELSE sample.rev]

\* str.format: the text is scanned from position i on; '{{' and '}}' are
\* literal braces, '{name}' is replaced by kwargs[name]; err names the
\* exception raised ("" for none) and names the key a KeyError quotes
RECURSIVE Format(_, _, _)
Format(t, i, kw) ==
  IF i > Len(t) THEN [err |-> "", text |-> <<>>, names |-> {}]
  ELSE IF t[i] = "{" THEN
    IF i < Len(t) /\ t[i + 1] = "{"
    THEN LET r == Format(t, i + 2, kw)
         IN IF r.err # "" THEN r ELSE [r EXCEPT !.text = <<"{">> \o @]
    ELSE LET closes == {j \in (i + 1)..Len(t) : t[j] = "}"}
         IN IF closes = {} THEN [err |-> "ValueError", text |-> <<>>, names |-> {}]
            ELSE LET j == Min(closes)
                     field == Slice(t, i + 1, j - 1)
                 IN IF \A x \in 1..Len(field) : IsDigit(field[x])
                    THEN [err |-> "IndexError", text |-> <<>>, names |-> {}]
                    ELSE IF field \notin DOMAIN kw
                    THEN [err |-> "KeyError", text |-> <<>>, names |-> {field}]
                    ELSE LET r == Format(t, j + 1, kw)
                         IN IF r.err # "" THEN r ELSE [r EXCEPT !.text = kw[field] \o @]
  ELSE IF t[i] = "}" THEN
    IF i < Len(t) /\ t[i + 1] = "}"
    THEN LET r == Format(t, i + 2, kw)
         IN IF r.err # "" THEN r ELSE [r EXCEPT !.text = <<"}">> \o @]
    ELSE [err |-> "ValueError", text |-> <<>>, names |-> {}]
  ELSE LET r == Format(t, i + 1, kw)
       IN IF r.err # "" THEN r ELSE [r EXCEPT !.text = <<t[i]>> \o @]

JobFilepath(jobs, sample_name) == Join(jobs, <<"s","l","u","r","m","-">> \o sample_name \o <<".","j","o","b">>)

\* ------------------------------------------------------------------ inputs
\* the largest number of entries in the scanned directory
MaxFiles == 4

FileR1 == <<"s","a","m","p","l","e","_","S","1","_","L","0","0","1","_","R","1","_","0","0","1",".","f","a","s","t","q",".","g","z">>
FileR2 == <<"s","a","m","p","l","e","_","S","1","_","L","0","0","1","_","R","2","_","0","0","1",".","f","a","s","t","q",".","g","z">>
Reads1 == <<"r","e","a","d","s","_","1",".","f","a","s","t","q">>
Reads2 == <<"r","e","a","d","s","_","2",".","f","a","s","t","q">>
SubDir == <<"s","u","b">>

\* names an entry of the scanned directory may have
NamePool ==
  { FileR1, FileR2, Reads1, Reads2,
    <<"t",".","f","q">>, <<"t",".","f","q",".","g","z">>, <<"t",".","f","q",".","b","z","2">>, <<"t",".","f","a","s","t","q",".","b","z","2">>,
    <<"x",".","F","Q">>, <<"n","o","t","e","s",".","t","x","t">>, SubDir }

\* names built from a prefix, a lane/read part and an extension
Prefixes == { <<>>, <<"s","a","m","p","l","e">>, <<"m","y","_","S","a","m","p","l","e","_","A">>, <<"r","e","a","d","s","_","1">>, <<"r","e","a","d","s","_","2">> }

LaneParts ==
  { <<>>, <<"_","S","1","_","L","0","0","1","_","R","1","_","0","0","1">>, <<"_","S","1","_","L","0","0","1","_","R","2","_","0","0","1">>, <<"_","S","1","_","L","0","0","2","_","R","1","_","0","0","1">>,
    <<"_","S","1","_","L","1","_","R","1","2","_","0","0","1">>, <<"_","S","_","L","0","0","1","_","R","1","_","0","0","1">>, <<"_","S","1","_","L","0","0","1","_","R","1","_","0","0","1","_","t","r","i","m">>,
    <<"_","S","1","_","L","0","0","1","_","R","1","_","0","0","1","x","_","S","2","_","L","0","0","1","_","R","2","_","0","0","1">> }

NameExtensions ==
  { <<".","f","q">>, <<".","f","a","s","t","q">>, <<".","f","q",".","g","z">>, <<".","f","a","s","t","q",".","g","z">>, <<".","f","q",".","b","z","2">>, <<".","f","a","s","t","q",".","b","z","2">>,
    <<".","f","q",".","f","q">>, <<".","f","q",".","g","z",".","f","q">>, <<".","f","a","s","t","q",".","f","q",".","g","z">> }

ComposedNames ==
  { p \o m \o e : p \in Prefixes, m \in LaneParts, e \in NameExtensions }

\* the entry sub is a directory that holds a file of its own
Entry(n) == [name |-> n, children |-> IF n = SubDir THEN << <<"d","e","e","p",".","f","q">> >> ELSE <<>>]

\* a directory listing of the names S, ascending or descending
RECURSIVE Listing(_, _)
Listing(S, asc) ==
  IF S = {} THEN <<>>
  ELSE LET x == CHOOSE y \in S : \A z \in S \ {y} : IF asc THEN StrLess(y, z) ELSE StrLess(z, y)
       IN <<Entry(x)>> \o Listing(S \ {x}, asc)

GenomeOnly == <<"{","g","e","n","o","m","e","}">>
FullTemplate == <<"r","u","n"," ","{","f","w","d","}"," ","{","r","e","v","}"," ","-","o"," ","{","o","u","t","p","u","t","}"," ","-","r"," ","{","r","e","f","e","r","e","n","c","e","}"," ",">"," ","{","g","e","n","o","m","e","}">>
UnknownField == <<"{","g","e","n","o","m","e","}"," ","{","s","a","m","p","l","e","}">>

Templates == { GenomeOnly, FullTemplate, UnknownField }

NoPath == [given |-> FALSE, path |-> <<>>]
SomePath(p) == [given |-> TRUE, path |-> p]

\* command lines: relative paths and no options, absolute paths and both options
ArgSets ==
  { [template |-> <<"j","o","b",".","t","m","p","l">>, fastqs |-> <<"f","q">>, jobs |-> <<"j","o","b","s">>,
     output |-> NoPath, reference |-> NoPath],
    [template |-> <<"/","t","/","j","o","b",".","t","m","p","l">>, fastqs |-> <<"/","d","a","t","a">>, jobs |-> <<"/","j">>,
     output |-> SomePath(<<"/","o","u","t">>), reference |-> SomePath(<<"/","r","e","f",".","f","a">>)] }

\* ------------------------------------------------------------------ state
VARIABLES args, fs, pc, job_tmpl, all_fastq_paths, genome_fastqs,
          fastq_paths_names, idx, written, stdout, error, exit_code

vars == <<args, fs, pc, job_tmpl, all_fastq_paths, genome_fastqs,
          fastq_paths_names, idx, written, stdout, error, exit_code>>

NotExited == 0 - 1
\* names: the texts the message of the exception quotes
NoError == [type |-> "", phase |-> "", names |-> {}]

\* the state main starts in, on the file system given
Start(files, asc, text, te, fe, je) ==
  /\ fs = [tmplExists |-> te, tmplText |-> text, fastqsExists |-> fe,
           entries |-> Listing(files, asc), jobsExists |-> je]
  /\ pc = "read_template"
  /\ job_tmpl = <<>>
  /\ all_fastq_paths = <<>>
  /\ genome_fastqs = <<>>
  /\ fastq_paths_names = <<>>
  /\ idx = 1
  /\ written = {}
  /\ stdout = <<>>
  /\ error = NoError
  /\ exit_code = NotExited

\* a directory of at most MaxFiles entries; a missing directory and an
\* unreadable template are tried with nothing to list
Init ==
  /\ args \in ArgSets
  /\ \E S \in {T \in SUBSET NamePool : Cardinality(T) <= MaxFiles},
        asc \in BOOLEAN, text \in Templates,
        te \in BOOLEAN, fe \in BOOLEAN, je \in BOOLEAN :
        /\ (~fe \/ ~te) => S = {}
        /\ Cardinality(S) <= 1 => asc
        /\ Start(S, asc, text, te, fe, je)

\* a directory of one composed name, or of the R1/R2 pair
InitNames ==
  /\ args \in ArgSets
  /\ \E S \in {{n} : n \in ComposedNames} \cup {{FileR1, FileR2}},
        text \in Templates, te \in BOOLEAN, je \in BOOLEAN :
        Start(S, TRUE, text, te, TRUE, je)

\* an exception that is caught and followed by a normal exit
Raise_exit0(type, phase, names) ==
  /\ pc' = "failed"
  /\ error' = [type |-> type, phase |-> phase, names |-> names]
  /\ exit_code' = 0

\* an uncaught exception ends the process with exit status 1
Raise(type, phase, names) ==
  /\ pc' = "failed"
  /\ error' = [type |-> type, phase |-> phase, names |-> names]
  /\ exit_code' = 1

\* job_tmpl = args.template.read_text()
ReadTemplate ==
  /\ pc = "read_template"
  /\ fs.tmplExists
  /\ job_tmpl' = fs.tmplText
  /\ pc' = "discover"
  /\ UNCHANGED <<args, fs, all_fastq_paths, genome_fastqs, fastq_paths_names,
                 idx, written, stdout, error, exit_code>>

ReadTemplateError ==
  /\ pc = "read_template"
  /\ ~fs.tmplExists
  /\ Raise("FileNotFoundError", "read_template", {args.template})
  /\ UNCHANGED <<args, fs, job_tmpl, all_fastq_paths, genome_fastqs,
                 fastq_paths_names, idx, written, stdout>>

\* a discovery that lists the directory with iterdir, which raises on a
\* missing directory
Discover_iterdir ==
  /\ pc = "discover"
  /\ IF fs.fastqsExists
     THEN /\ all_fastq_paths' = get_fastq_paths(args.fastqs, fs.fastqsExists, fs.entries)
          /\ stdout' = Append(stdout, [kind |-> "found", count |-> Len(all_fastq_paths'),
                                       samples |-> 0, path |-> args.fastqs])
          /\ pc' = "group"
          /\ UNCHANGED <<error, exit_code>>
     ELSE /\ Raise("FileNotFoundError", "discover", {args.fastqs})
          /\ UNCHANGED <<all_fastq_paths, stdout>>
  /\ UNCHANGED <<args, fs, job_tmpl, genome_fastqs, fastq_paths_names, idx, written>>

\* all_fastq_paths = get_fastq_paths(args.fastqs)
Discover ==
  /\ pc = "discover"
  /\ all_fastq_paths' = get_fastq_paths(args.fastqs, fs.fastqsExists, fs.entries)
  /\ stdout' = Append(stdout, [kind |-> "found", count |-> Len(all_fastq_paths'),
                               samples |-> 0, path |-> args.fastqs])
  /\ pc' = "group"
  /\ UNCHANGED <<args, fs, job_tmpl, genome_fastqs, fastq_paths_names,
                 idx, written, error, exit_code>>

\* fastq_paths_names = group_fastqs(all_fastq_paths)
Group ==
  /\ pc = "group"
  /\ genome_fastqs' = GenomeFastqs(all_fastq_paths)
  /\ \A g \in 1..Len(genome_fastqs') : CanUnpack(genome_fastqs'[g].paths)
  /\ fastq_paths_names' = [g \in 1..Len(genome_fastqs') |-> FwdRev(genome_fastqs'[g])]
  /\ stdout' = Append(stdout, [kind |-> "grouped", count |-> Len(all_fastq_paths),
                               samples |-> Len(fastq_paths_names'), path |-> <<>>])
  /\ pc' = "emit"
  /\ UNCHANGED <<args, fs, job_tmpl, all_fastq_paths, idx, written, error, exit_code>>

\* a grouping that leaves the short group to the emission loop
GroupError_late ==
  /\ pc = "group"
  /\ genome_fastqs' = GenomeFastqs(all_fastq_paths)
  /\ \E g \in 1..Len(genome_fastqs') : ~CanUnpack(genome_fastqs'[g].paths)
  /\ stdout' = Append(stdout, [kind |-> "grouped", count |-> Len(all_fastq_paths),
                               samples |-> Len(genome_fastqs'), path |-> <<>>])
  /\ Raise("ValueError", "emit",
           {genome_fastqs'[g].name :
              g \in {x \in 1..Len(genome_fastqs') : ~CanUnpack(genome_fastqs'[x].paths)}})
  /\ UNCHANGED <<args, fs, job_tmpl, all_fastq_paths, fastq_paths_names, idx, written>>

\* the unpacking of a group of fewer than two paths raises ValueError
GroupError ==
  /\ pc = "group"
  /\ genome_fastqs' = GenomeFastqs(all_fastq_paths)
  /\ \E g \in 1..Len(genome_fastqs') : ~CanUnpack(genome_fastqs'[g].paths)
  /\ Raise("ValueError", "group", {})
  /\ UNCHANGED <<args, fs, job_tmpl, all_fastq_paths, fastq_paths_names,
                 idx, written, stdout>>

\* one turn of the loop that writes the job files
Rendered == Format(job_tmpl, 1, Kwargs(fastq_paths_names[idx], args.output, args.reference))

Emit ==
  /\ pc = "emit"
  /\ idx <= Len(fastq_paths_names)
  /\ Rendered.err = ""
  /\ fs.jobsExists
  /\ LET sample == fastq_paths_names[idx]
         job_filepath == JobFilepath(args.jobs, sample.name)
     IN /\ written' = {w \in written : w.path # job_filepath}
                         \cup {[path |-> job_filepath, text |-> Rendered.text]}
        /\ stdout' = Append(stdout, [kind |-> "wrote", count |-> 0, samples |-> 0,
                                     path |-> job_filepath])
  /\ idx' = idx + 1
  /\ UNCHANGED <<args, fs, pc, job_tmpl, all_fastq_paths, genome_fastqs,
                 fastq_paths_names, error, exit_code>>

\* job_tmpl.format(...) raises on a field it has no argument for
EmitFormatError ==
  /\ pc = "emit"
  /\ idx <= Len(fastq_paths_names)
  /\ Rendered.err # ""
  /\ Raise(Rendered.err, "emit", Rendered.names)
  /\ UNCHANGED <<args, fs, job_tmpl, all_fastq_paths, genome_fastqs,
                 fastq_paths_names, idx, written, stdout>>

\* job_filepath.write_text(job) raises when the jobs directory is missing
EmitWriteError ==
  /\ pc = "emit"
  /\ idx <= Len(fastq_paths_names)
  /\ Rendered.err = ""
  /\ ~fs.jobsExists
  /\ Raise("FileNotFoundError", "emit", {JobFilepath(args.jobs, fastq_paths_names[idx].name)})
  /\ UNCHANGED <<args, fs, job_tmpl, all_fastq_paths, genome_fastqs,
                 fastq_paths_names, idx, written, stdout>>

\* main returns after the last sample
Finish ==
  /\ pc = "emit"
  /\ idx > Len(fastq_paths_names)
  /\ pc' = "done"
  /\ exit_code' = 0
  /\ UNCHANGED <<args, fs, job_tmpl, all_fastq_paths, genome_fastqs,
                 fastq_paths_names, idx, written, stdout, error>>

Next ==
  \/ ReadTemplate
  \/ ReadTemplateError
  \/ Discover
  \/ Group
  \/ GroupError
  \/ Emit
  \/ EmitFormatError
  \/ EmitWriteError
  \/ Finish

Spec == Init /\ [][Next]_vars

SpecNames == InitNames /\ [][Next]_vars

\* ------------------------------------------------------------------ properties of a run
\* the suffixes a sequencing-read file name may end with
RecognizedSuffixes ==
  { <<".","f","q">>, <<".","f","a","s","t","q">>, <<".","f","q",".","g","z">>, <<".","f","a","s","t","q",".","g","z">>, <<".","f","q",".","b","z","2">>, <<".","f","a","s","t","q",".","b","z","2">> }

HasRecognizedSuffix(n) == \E suf \in RecognizedSuffixes : EndsWith(n, suf)

\* the absolute form of the two directories a run may scan
AbsoluteFastqsDir == IF args.fastqs = <<"f","q">> THEN <<"/","w","/","f","q">> ELSE <<"/","d","a","t","a">>

\* discovery has returned
Discovered == \E i \in 1..Len(stdout) : stdout[i].kind = "found"

\* grouping has returned
Grouped == \E i \in 1..Len(stdout) : stdout[i].kind = "grouped"

EntryNames == {fs.entries[i].name : i \in 1..Len(fs.entries)}

\* the smallest text of a set, by the order of the texts as strings
StrMin(S) == CHOOSE p \in S : \A q \in S \ {p} : StrLess(p, q)

SingleFileGroup == \E g \in 1..Len(genome_fastqs) : Len(genome_fastqs[g].paths) = 1

\* C1: get_fastq_paths returns exactly the entries directly inside the
\* directory whose name ends with one of the six suffixes, each as an
\* absolute path and each once; nothing else, nothing from a subdirectory.
C1_DiscoveryExact ==
  Discovered =>
    LET expected == IF fs.fastqsExists
                    THEN {AbsoluteFastqsDir \o <<"/">> \o n :
                            n \in {m \in EntryNames : HasRecognizedSuffix(m)}}
                    ELSE {}
    IN /\ Range(all_fastq_paths) = expected
       /\ Len(all_fastq_paths) = Cardinality(expected)
       /\ \A i \in 1..Len(all_fastq_paths) : all_fastq_paths[i][1] = "/"

C1_Witness ==
  /\ Discovered
  /\ args.fastqs = <<"f","q">>
  /\ {SubDir, <<"x",".","F","Q">>} \subseteq EntryNames
  /\ Len(all_fastq_paths) = 2

\* C4: for every group of two or more files, fwd is the smallest path by
\* its string form and rev the second smallest; further files raise no
\* error and print nothing; for the R1/R2 pair fwd is R1 and rev is R2.
C4_FwdRevSmallestTwo ==
  /\ Grouped =>
       /\ Len(fastq_paths_names) = Len(genome_fastqs)
       /\ \A g \in 1..Len(genome_fastqs) :
            LET S == Range(genome_fastqs[g].paths)
                f == fastq_paths_names[g]
            IN /\ Cardinality(S) >= 2
               /\ f.name = genome_fastqs[g].name
               /\ f.fwd = StrMin(S)
               /\ f.rev = StrMin(S \ {f.fwd})
               /\ S = {AbsoluteFastqsDir \o <<"/">> \o FileR1, AbsoluteFastqsDir \o <<"/">> \o FileR2}
                    => /\ f.fwd = AbsoluteFastqsDir \o <<"/">> \o FileR1
                       /\ f.rev = AbsoluteFastqsDir \o <<"/">> \o FileR2
  /\ error.phase = "group" => SingleFileGroup
  /\ (Grouped /\ idx = 1) => Len(stdout) = 2

C4_Witness ==
  /\ Grouped
  /\ \E g \in 1..Len(genome_fastqs) :
       /\ Len(genome_fastqs[g].paths) >= 3
       /\ genome_fastqs[g].paths[1] # fastq_paths_names[g].fwd

\* C5: a run with a group of exactly one file ends in an error with a
\* non-zero exit status, and no job file is ever written in it.
C5_SingleFileGroupFails ==
  SingleFileGroup => (pc = "failed" /\ exit_code = 1 /\ written = {})

C5_Witness ==
  /\ SingleFileGroup
  /\ \E g \in 1..Len(genome_fastqs) : Len(genome_fastqs[g].paths) >= 2
  /\ pc = "failed"

\* the text a job file must hold for group g
ExpectedJob(g) ==
  LET S == Range(genome_fastqs[g].paths)
      fwd == StrMin(S)
      rev == StrMin(S \ {fwd})
      out == IF args.output.given THEN args.output.path ELSE <<"N","o","n","e">>
      ref == IF args.reference.given THEN args.reference.path ELSE <<"N","o","n","e">>
      name == genome_fastqs[g].name
  IN [path |-> args.jobs \o <<"/","s","l","u","r","m","-">> \o name \o <<".","j","o","b">>,
      text |-> IF job_tmpl = GenomeOnly THEN name
               ELSE <<"r","u","n"," ">> \o fwd \o <<" ">> \o rev \o <<" ","-","o"," ">> \o out
                      \o <<" ","-","r"," ">> \o ref \o <<" ",">"," ">> \o name]

\* C6: after an exit with status zero the job files written are exactly
\* one <jobs>/slurm-<sample>.job per sample, each holding the template with
\* its fields replaced; the template {genome} gives the sample name alone.
C6_JobFilesOnExitZero ==
  (pc = "done" /\ exit_code = 0) =>
    /\ written = {ExpectedJob(g) : g \in 1..Len(genome_fastqs)}
    /\ Cardinality(written) = Len(genome_fastqs)
    /\ Cardinality({w.path : w \in written}) = Len(genome_fastqs)

C6_Witness ==
  /\ pc = "done"
  /\ job_tmpl = FullTemplate
  /\ Cardinality(written) = 2

\* C3 (as the docstring of group_fastqs states it): reads_1.fastq and
\* reads_2.fastq have the common name reads and form one group of two.
C3_DocstringExample ==
  (EntryNames = {Reads1, Reads2} /\ genome_fastqs # <<>>) =>
    /\ Len(genome_fastqs) = 1
    /\ genome_fastqs[1].name = <<"r","e","a","d","s">>
    /\ Len(genome_fastqs[1].paths) = 2

\* C7 (as stated): with the fastqs directory missing, discovery fails with
\* an error that names the directory: the run exits non-zero, no grouping
\* takes place and no job file is written.
C7_MissingDirectoryFails ==
  ~fs.fastqsExists =>
    /\ ~Grouped
    /\ written = {}
    /\ (pc \in {"done", "failed"} /\ fs.tmplExists) =>
         (pc = "failed" /\ exit_code = 1 /\ args.fastqs \in error.names)

\* C7 (amended): with the fastqs directory missing, discovery does not
\* fail: it returns no path and reports 0 fastqs, grouping runs on the empty
\* list and reports 0 samples, no job file is written, and the run exits
\* with status zero when the template file could be read.
C7_MissingDirectoryIsEmpty ==
  ~fs.fastqsExists =>
    /\ error.phase \notin {"discover", "group", "emit"}
    /\ Discovered =>
         /\ all_fastq_paths = <<>>
         /\ stdout[1] = [kind |-> "found", count |-> 0, samples |-> 0, path |-> args.fastqs]
    /\ Grouped =>
         /\ fastq_paths_names = <<>>
         /\ stdout[2] = [kind |-> "grouped", count |-> 0, samples |-> 0, path |-> <<>>]
    /\ written = {}
    /\ (pc \in {"done", "failed"} /\ fs.tmplExists) => (pc = "done" /\ exit_code = 0)

C7_Witness == ~fs.fastqsExists /\ pc = "done" /\ Len(stdout) = 2

\* the template holds a named field outside the five the run supplies
HasUnknownField(t) ==
  \E i \in 1..Len(t), j \in 1..Len(t) :
     /\ i < j
     /\ t[i] = "{"
     /\ t[j] = "}"
     /\ \A x \in (i + 1)..(j - 1) : t[x] \notin {"{", "}"}
     /\ \E x \in (i + 1)..(j - 1) : ~IsDigit(t[x])
     /\ Slice(t, i + 1, j - 1) \notin
          { <<"g","e","n","o","m","e">>, <<"o","u","t","p","u","t">>, <<"r","e","f","e","r","e","n","c","e">>, <<"f","w","d">>, <<"r","e","v">> }

\* C8 (as stated): a run whose template holds an unknown field ends in an
\* error, exits non-zero and writes no job file, whatever the number of
\* samples (zero included).
C8_UnknownFieldAlwaysFails ==
  (HasUnknownField(fs.tmplText) /\ pc \in {"done", "failed"}) =>
    (pc = "failed" /\ exit_code = 1 /\ written = {})

\* C8 (amended): a run whose template holds an unknown field writes no job
\* file; it ends in an error with a non-zero exit when at least one file was
\* discovered (the KeyError is raised by the first format call), and with
\* status zero when none was and the template file could be read.
C8_UnknownFieldFailsOnFirstSample ==
  HasUnknownField(fs.tmplText) =>
    /\ written = {}
    /\ (pc \in {"done", "failed"} /\ Len(all_fastq_paths) >= 1)
         => (pc = "failed" /\ exit_code = 1)
    /\ (pc \in {"done", "failed"} /\ fs.tmplExists /\ all_fastq_paths = <<>>)
         => (pc = "done" /\ exit_code = 0)
    /\ error.type = "KeyError" =>
         (error.phase = "emit" /\ idx = 1 /\ error.names = { <<"s","a","m","p","l","e">> })

C8_Witness ==
  /\ HasUnknownField(fs.tmplText)
  /\ error.type = "KeyError"
  /\ Len(fastq_paths_names) = 2

\* C10 (as stated): a group of fewer than two files is no error of the
\* grouping phase: grouping reports its counts and the run fails later, in
\* the emission phase.
C10_FailsAtEmission ==
  SingleFileGroup => (Grouped /\ (pc = "failed" => error.phase = "emit"))

\* C10 (amended): a group of fewer than two files is an error of the
\* grouping phase: the unpacking raises ValueError before grouping reports
\* its counts, nothing is returned, the emission loop is never entered and
\* no job file is written; the message of the error quotes neither the
\* sample nor the files of the group.
C10_FailsAtGrouping ==
  SingleFileGroup =>
    /\ pc = "failed"
    /\ error = [type |-> "ValueError", phase |-> "group", names |-> {}]
    /\ ~Grouped
    /\ Len(stdout) = 1
    /\ fastq_paths_names = <<>>
    /\ idx = 1
    /\ written = {}

C10_Witness ==
  /\ SingleFileGroup
  /\ error.phase = "group"
  /\ Len(genome_fastqs) >= 3

\* ------------------------------------------------------------------ properties of the sample names
\* the ends of the texts _L, digits, 1, _R, one or more digits, _001 that
\* start at position j of s
TailEndsAt(s, j) ==
  IF ~LitAt(s, j, <<"_","L">>) THEN {}
  ELSE { j + mn[1] + mn[2] + 8 :
           mn \in { x \in (0..Len(s)) \X (1..Len(s)) :
                      /\ j + x[1] + x[2] + 8 <= Len(s)
                      /\ \A t \in (j + 2)..(j + 1 + x[1]) : IsDigit(s[t])
                      /\ LitAt(s, j + 2 + x[1], <<"1","_","R">>)
                      /\ \A t \in (j + x[1] + 5)..(j + x[1] + x[2] + 4) : IsDigit(s[t])
                      /\ LitAt(s, j + x[1] + x[2] + 5, <<"_","0","0","1">>) } }

\* the marker as the specification words it: _S, one or more characters
\* other than an underscore, then such a text
SpecMarkerEnds(s, i) ==
  IF ~LitAt(s, i, <<"_","S">>) THEN {}
  ELSE UNION { TailEndsAt(s, i + 2 + k) :
                 k \in { x \in 1..Len(s) :
                           \A t \in (i + 2)..(i + 1 + x) : t <= Len(s) /\ s[t] # "_" } }

RECURSIVE DeleteSpecMarkersFrom(_, _)
DeleteSpecMarkersFrom(s, pos) ==
  LET starts == {i \in pos..Len(s) : SpecMarkerEnds(s, i) # {}}
  IN IF starts = {} THEN Slice(s, pos, Len(s))
     ELSE Slice(s, pos, Min(starts) - 1)
            \o DeleteSpecMarkersFrom(s, Max(SpecMarkerEnds(s, Min(starts))) + 1)

DeleteSpecMarkers(s) == DeleteSpecMarkersFrom(s, 1)

\* the marker as the code matches it: from the first _S that is followed,
\* one character or more later, by such a text, to the end of the last one
DeleteCodeMarkers(s) ==
  LET tails == UNION { {<<j, e>> : e \in TailEndsAt(s, j)} : j \in 1..Len(s) }
      starts == {i \in 1..Len(s) : LitAt(s, i, <<"_","S">>) /\ \E t \in tails : t[1] >= i + 3}
  IN IF starts = {} THEN s
     ELSE LET i0 == Min(starts)
              e == Max({t[2] : t \in {u \in tails : u[1] >= i0 + 3}})
          IN Slice(s, 1, i0 - 1) \o Slice(s, e + 1, Len(s))

\* the name n without the recognized suffix it ends with
StripSuffix(n) ==
  LET sufs == {suf \in RecognizedSuffixes : EndsWith(n, suf)}
  IN IF sufs = {} THEN n ELSE Slice(n, 1, Len(n) - Len(CHOOSE suf \in sufs : TRUE))

\* the files of all groups, each with the sample name it was given
NamedFiles ==
  UNION { {[file |-> Name(genome_fastqs[g].paths[i]), sample |-> genome_fastqs[g].name] :
             i \in 1..Len(genome_fastqs[g].paths)} : g \in 1..Len(genome_fastqs) }

C9_MarkerHasNoUnderscore ==
  \A g \in 1..Len(genome_fastqs) : \A i \in 1..Len(genome_fastqs[g].paths) :
    genome_fastqs[g].name = DeleteSpecMarkers(FastqRegexSub(Stem(genome_fastqs[g].paths[i])))

\* C9 (amended): the marker deleted is _S, one or more characters of any
\* kind (underscores included), _L, digits, 1, _R, digits, _001, matched
\* leftmost and longest: the text from the first _S that such an end follows
\* to the last such end is deleted and the text around it is kept, so
\* my_Sample_A_S1_L001_R1_001 gives my.
C9_MarkerIsLeftmostLongest ==
  \A g \in 1..Len(genome_fastqs) : \A i \in 1..Len(genome_fastqs[g].paths) :
    LET b == FastqRegexSub(Stem(genome_fastqs[g].paths[i]))
    IN /\ genome_fastqs[g].name = DeleteCodeMarkers(b)
       /\ b = <<"m","y","_","S","a","m","p","l","e","_","A","_","S","1","_","L","0","0","1","_","R","1","_","0","0","1">> => genome_fastqs[g].name = <<"m","y">>
       /\ b = <<"s","a","m","p","l","e","_","S","1","_","L","0","0","2","_","R","1","_","0","0","1">> => genome_fastqs[g].name = b
       /\ b = <<"s","a","m","p","l","e","_","S","1","_","L","0","0","1","_","R","1","_","0","0","1","_","t","r","i","m">> => genome_fastqs[g].name = <<"s","a","m","p","l","e","_","t","r","i","m">>

C9_Witness ==
  \E g \in 1..Len(genome_fastqs) :
    /\ genome_fastqs[g].name = <<"m","y">>
    /\ Name(genome_fastqs[g].paths[1]) = <<"m","y","_","S","a","m","p","l","e","_","A","_","S","1","_","L","0","0","1","_","R","1","_","0","0","1",".","f","q",".","g","z">>

====
